---- MODULE Spec2Model ----
(***************************************************************************)
(* Econectar: the GalleryManager lightbox widget (gallery.js) as a state   *)
(* machine.  One action per public method, DOM event handler and timer     *)
(* callback.  Indices are 0-based as in the source; TLA+ sequences are     *)
(* 1-based, so image i of the source is element i+1 of `images`.           *)
(* The LanguageManager (language.js) is a second state machine over its    *)
(* own variables, with its own specification LangSpec; the form handling   *)
(* of Econectar (main.js) is a third, with the specification FormSpec.     *)
(***************************************************************************)
EXTENDS Integers, Sequences, FiniteSets, TLC

\* ------------------------------------------------------------------ bounds
\* The page holds one gallery of every length 1..MaxGalleryLen.
MaxGalleryLen == 3
\* goToSlide is called with indices from -GoToSlack .. MaxGalleryLen+GoToSlack-1.
GoToSlack == 3
\* At most this many setInterval timers are alive at once.
MaxIntervals == 2
\* The session history holds at most this many entries.
MaxHistory == 3
\* The page holds this many forms.
NumForms == 2
\* At most this many notification elements are in the page at once.
MaxNotifications == 2
\* At most this many requests are followed at once.
MaxRequests == 2

\* ------------------------------------------------------- program constants
animationDuration == 300
slideShowDelay == 5000
touchThreshold == 50

\* ------------------------------------------------------------------- state
VARIABLES
    currentSlide,       \* this.currentSlide
    isAnimating,        \* this.isAnimating
    currentGallery,     \* this.currentGallery (NoGallery = undefined)
    images,             \* this.images (Undefined until the first openLightbox)
    hidden,             \* lightbox.classList contains 'hidden'
    bodyOverflow,       \* document.body.style.overflow
    loaderDisplay,      \* .lightbox-loader style.display
    imageOpacity,       \* lightboxImage.style.opacity
    imageSrc,           \* lightboxImage.src
    caption,            \* lightboxCaption.textContent
    loadPending,        \* the browser is fetching lightboxImage.src
    thumbs,             \* .lightbox-thumbnails children: 'active' flag of each
    counter,            \* lightboxCounter.textContent as <<shown, total>>
    slideshowInterval,  \* this.slideshowInterval (NoHandle = undefined / null)
    intervals,          \* handles of the setInterval timers alive in the browser
    unlockTimers,       \* pending setTimeout callbacks that clear isAnimating
    lastCall,           \* the method or callback that ran last, and how it ended
    touchStartX,        \* this.touchStartX
    touchEndX,          \* this.touchEndX
    touching,           \* a finger is on the lightbox (touchstart seen, no touchend)
    fingerX,            \* e.touches[0].clientX of the latest touch event
    currentLang,        \* LanguageManager.currentLang
    savedLang,          \* localStorage 'econectar-language' (NoLang = absent)
    history,            \* session history: the 'lang' URL parameter of each entry
    histPos,            \* position of the current entry in history
    htmlLang,           \* lang attribute of the html element
    activeButtons,      \* data-lang of the .lang-btn buttons carrying 'active'
    loading,            \* body carries the class 'loading'
    visibleLangs,       \* languages whose .text-<lang> elements are not hidden
    utilityHidden,      \* other [class*="text-"] elements carry 'hidden'
    pendingSwitch,      \* switchLanguage suspended at its await (NoLang = none)
    langEvent,          \* the LanguageManager code that ran last
    browserLang,        \* navigator.language.split('-')[0]
    isLoading,          \* Econectar.isLoading
    requests,           \* forms whose fetch() is in flight, oldest first
    fields,             \* content of each form's fields
    notifications,      \* the .notification elements in the body, oldest first
    formEvent           \* the Econectar form code that ran last

navVars     == <<currentSlide, isAnimating, unlockTimers>>
galleryVars == <<currentGallery, images>>
viewVars    == <<hidden, bodyOverflow>>
displayVars == <<loaderDisplay, imageOpacity, imageSrc, caption, loadPending>>
stripVars   == <<thumbs, counter>>
timerVars   == <<slideshowInterval, intervals>>
progVars    == <<navVars, galleryVars, viewVars, displayVars, stripVars, timerVars>>
touchVars   == <<touchStartX, touchEndX, touching, fingerX>>
\* State that the lightbox methods and callbacks never write.
langVars    == <<currentLang, savedLang, history, histPos, htmlLang,
                 activeButtons, loading, visibleLangs, utilityHidden,
                 pendingSwitch, browserLang>>
formVars    == <<isLoading, requests, fields, notifications>>
otherVars   == <<touchVars, langVars, langEvent, formVars, formEvent>>
vars        == <<progVars, lastCall, otherVars>>

\* ------------------------------------------------------------ the page
Galleries == 1..MaxGalleryLen
GalleryLen(g) == g
NoGallery == 0
NoHandle == 0
\* Every gallery that can be opened has at least one thumbnail, so the empty
\* sequence stands for `this.images === undefined`.
Undefined == << >>

\* Array.from(gallery.querySelectorAll('.gallery-thumbnail'))
GalleryThumbnails(g) == [k \in 1..GalleryLen(g) |-> [gallery |-> g, idx |-> k - 1]]

\* image.querySelector('img').dataset.full || image.querySelector('img').src
FullSrc(image) == [kind |-> "full", gallery |-> image.gallery, idx |-> image.idx]
\* image.querySelector('img').alt
AltText(image) == [kind |-> "alt", gallery |-> image.gallery, idx |-> image.idx]
EmptyText == [kind |-> "empty", gallery |-> 0, idx |-> 0]
ErrorImageSrc == [kind |-> "error-image", gallery |-> 0, idx |-> 0]
ErrorCaption == [kind |-> "error-text", gallery |-> 0, idx |-> 0]

GoToIndices == (0 - GoToSlack)..(MaxGalleryLen + GoToSlack - 1)
Keys == {"ArrowLeft", "ArrowRight", "Escape", "Enter"}
\* clientX values of touch events: apart by exactly the threshold, and by more
TouchXs == {0, touchThreshold, 2 * touchThreshold + 20}

Call(op, arg, result) == [op |-> op, arg |-> arg, result |-> result]

\* --------------------------------------------------------- the languages
\* Object.keys(this.languages)
Languages == {"pt", "en", "es"}
defaultLang == "pt"
\* null, or the empty string: the falsy values of getItem() and get('lang')
NoLang == ""
\* Language codes met in URLs and browsers: the available ones and another
LangCodes == Languages \cup {"fr"}

isValidLanguage(lang) == lang \in Languages

\* Variant of getInitialLanguage that looks at the URL before the stored value.
getInitialLanguageUrlFirst(saved, url, browser) ==
    IF url # NoLang THEN url
    ELSE IF saved # NoLang THEN saved
    ELSE IF isValidLanguage(browser) THEN browser ELSE defaultLang

\* savedLang || urlLang || (isValidLanguage(browserLang) ? browserLang : default)
getInitialLanguage(saved, url, browser) ==
    IF saved # NoLang THEN saved
    ELSE IF url # NoLang THEN url
    ELSE IF isValidLanguage(browser) THEN browser ELSE defaultLang

LangEvent(op, lang, result) == [op |-> op, lang |-> lang, result |-> result]

\* The state new LanguageManager() leaves: the page has a .nav-links element
\* and no .language-switcher of its own, so createLanguageSwitcher makes one
\* button per language; init() then runs loadLanguage(currentLang).
LanguageManagerInit(saved, url, browser) ==
    LET lang == getInitialLanguage(saved, url, browser) IN
    /\ currentLang = lang
    /\ savedLang = saved
    /\ history = <<url>>
    /\ histPos = 1
    /\ htmlLang = NoLang
    /\ activeButtons = {b \in Languages : b = lang}
    /\ loading = FALSE
    /\ visibleLangs = {l \in Languages : l = lang}
    /\ utilityHidden = TRUE
    /\ pendingSwitch = NoLang
    /\ browserLang = browser
    /\ langEvent = LangEvent("constructor", lang, "ok")

\* ---------------------------------------------------------- the forms
Forms == 1..NumForms

FormEvent(op, form, result) == [op |-> op, form |-> form, result |-> result]

\* The state new Econectar() leaves, the forms still empty.
EconectarInit ==
    /\ isLoading = FALSE
    /\ requests = << >>
    /\ fields = [f \in Forms |-> "empty"]
    /\ notifications = << >>
    /\ formEvent = FormEvent("constructor", 0, "ok")

\* ------------------------------------------------------------------- Init
GalleryInit ==
    /\ currentSlide = 0
    /\ isAnimating = FALSE
    /\ currentGallery = NoGallery
    /\ images = Undefined
    /\ hidden = TRUE
    /\ bodyOverflow = ""
    /\ loaderDisplay = ""
    /\ imageOpacity = 1
    /\ imageSrc = EmptyText
    /\ caption = EmptyText
    /\ loadPending = FALSE
    /\ thumbs = << >>
    /\ counter = <<0, 0>>
    /\ slideshowInterval = NoHandle
    /\ intervals = {}
    /\ unlockTimers = 0
    /\ lastCall = Call("constructor", 0, "ok")
    /\ touchStartX = 0
    /\ touchEndX = 0
    /\ touching = FALSE
    /\ fingerX = 0

Init ==
    /\ GalleryInit
    /\ LanguageManagerInit(NoLang, NoLang, defaultLang)
    /\ EconectarInit

\* ---------------------------------------------------------------- helpers
\* loadImage(index), reading the image list imgs
loadImage(imgs, index) ==
    /\ loaderDisplay' = "block"
    /\ imageOpacity' = 0
    /\ imageSrc' = FullSrc(imgs[index + 1])
    /\ loadPending' = TRUE
    /\ caption' = AltText(imgs[index + 1])

\* Variant of updateThumbnails that compares the 1-based position with cur.
updateThumbnailsOffByOne(imgs, cur) ==
    thumbs' = [k \in 1..Len(imgs) |-> (k = cur)]

updateThumbnails(imgs, cur) ==
    thumbs' = [k \in 1..Len(imgs) |-> (k - 1 = cur)]

updateCounter(imgs, cur) ==
    counter' = <<cur + 1, Len(imgs)>>

\* Variant of CircularIndex that clamps at both ends instead of wrapping.
CircularIndexClamp(index, len) ==
    LET i1 == IF index < 0 THEN 0 ELSE index
    IN  IF i1 >= len THEN len - 1 ELSE i1

\* Variant of CircularIndex that sends a negative index to the first slide.
CircularIndexWrapFirst(index, len) ==
    LET i1 == IF index < 0 THEN 0 ELSE index
    IN  IF i1 >= len THEN 0 ELSE i1

\* "Handle circular navigation": the two ifs of goToSlide, in order
CircularIndex(index, len) ==
    LET i1 == IF index < 0 THEN len - 1 ELSE index
    IN  IF i1 >= len THEN 0 ELSE i1

\* setInterval returns a handle that no live timer has
NewHandle == CHOOSE h \in 1..(Cardinality(intervals) + 1) : h \notin intervals

\* stopSlideshow()
stopSlideshow ==
    IF slideshowInterval # NoHandle
    THEN /\ intervals' = intervals \ {slideshowInterval}
         /\ slideshowInterval' = NoHandle
    ELSE UNCHANGED timerVars

\* ---------------------------------------------------------------- methods
\* Variant of openLightbox that forgets to assign currentSlide.
openLightboxKeepSlide(g, index) ==
    /\ currentGallery' = g
    /\ images' = GalleryThumbnails(g)
    /\ hidden' = FALSE
    /\ bodyOverflow' = "hidden"
    /\ loadImage(images', index)
    /\ updateThumbnails(images', index)
    /\ updateCounter(images', index)
    /\ UNCHANGED <<navVars, timerVars>>

\* Variant of openLightbox that returns early under the transition lock.
openLightboxGuarded(g, index) ==
    IF isAnimating THEN UNCHANGED progVars
    ELSE /\ currentGallery' = g
         /\ images' = GalleryThumbnails(g)
         /\ currentSlide' = index
         /\ hidden' = FALSE
         /\ bodyOverflow' = "hidden"
         /\ loadImage(images', index)
         /\ updateThumbnails(images', index)
         /\ updateCounter(images', index)
         /\ UNCHANGED <<isAnimating, unlockTimers, timerVars>>

\* Variant of openLightbox that toggles the 'hidden' class.
openLightboxToggle(g, index) ==
    /\ currentGallery' = g
    /\ images' = GalleryThumbnails(g)
    /\ currentSlide' = index
    /\ hidden' = ~hidden
    /\ bodyOverflow' = "hidden"
    /\ loadImage(images', index)
    /\ updateThumbnails(images', index)
    /\ updateCounter(images', index)
    /\ UNCHANGED <<isAnimating, unlockTimers, timerVars>>

openLightbox(g, index) ==
    /\ currentGallery' = g
    /\ images' = GalleryThumbnails(g)
    /\ currentSlide' = index
    /\ hidden' = FALSE
    /\ bodyOverflow' = "hidden"
    /\ loadImage(images', index)
    /\ updateThumbnails(images', index)
    /\ updateCounter(images', index)
    /\ UNCHANGED <<isAnimating, unlockTimers, timerVars>>

\* Variant of closeLightbox that leaves the page scroll lock in place.
closeLightboxKeepsScrollLock ==
    /\ hidden' = TRUE
    /\ stopSlideshow
    /\ UNCHANGED <<bodyOverflow, navVars, galleryVars, displayVars, stripVars>>

\* Variant of closeLightbox that toggles the 'hidden' class.
closeLightboxToggle ==
    /\ hidden' = ~hidden
    /\ bodyOverflow' = ""
    /\ stopSlideshow
    /\ UNCHANGED <<navVars, galleryVars, displayVars, stripVars>>

closeLightbox ==
    /\ hidden' = TRUE
    /\ bodyOverflow' = ""
    /\ stopSlideshow
    /\ UNCHANGED <<navVars, galleryVars, displayVars, stripVars>>

\* How a call of goToSlide(index) ends in the current state: ignored under the
\* lock, a TypeError on this.images.length when no gallery was opened yet.
goToSlideResult ==
    IF isAnimating THEN "ignored"
    ELSE IF images = Undefined THEN "threw"
    ELSE "ok"

\* Variant of goToSlide without the isAnimating early return.
goToSlideNoGuard(index) ==
    IF images = Undefined
    THEN /\ isAnimating' = TRUE
         /\ UNCHANGED <<currentSlide, unlockTimers, galleryVars, viewVars,
                        displayVars, stripVars, timerVars>>
    ELSE LET i == CircularIndex(index, Len(images)) IN
         /\ isAnimating' = TRUE
         /\ currentSlide' = i
         /\ loadImage(images, i)
         /\ updateThumbnails(images, i)
         /\ updateCounter(images, i)
         /\ unlockTimers' = unlockTimers + 1
         /\ UNCHANGED <<galleryVars, viewVars, timerVars>>

goToSlide(index) ==
    IF isAnimating THEN UNCHANGED progVars
    ELSE IF images = Undefined
    THEN \* isAnimating is set, then this.images.length throws: no timer is set
         /\ isAnimating' = TRUE
         /\ UNCHANGED <<currentSlide, unlockTimers, galleryVars, viewVars,
                        displayVars, stripVars, timerVars>>
    ELSE LET i == CircularIndex(index, Len(images)) IN
         /\ isAnimating' = TRUE
         /\ currentSlide' = i
         /\ loadImage(images, i)
         /\ updateThumbnails(images, i)
         /\ updateCounter(images, i)
         /\ unlockTimers' = unlockTimers + 1
         /\ UNCHANGED <<galleryVars, viewVars, timerVars>>

prevSlide ==
    IF isAnimating THEN UNCHANGED progVars
    ELSE goToSlide(currentSlide - 1)

nextSlide ==
    IF isAnimating THEN UNCHANGED progVars
    ELSE goToSlide(currentSlide + 1)

startSlideshow ==
    /\ Cardinality(intervals) < MaxIntervals
    /\ slideshowInterval' = NewHandle
    /\ intervals' = intervals \cup {NewHandle}
    /\ UNCHANGED <<navVars, galleryVars, viewVars, displayVars, stripVars>>

\* Variant of handleImageLoad that shows the image but keeps the loader.
handleImageLoadKeepsLoader ==
    /\ imageOpacity' = 1
    /\ UNCHANGED <<loaderDisplay, imageSrc, caption>>

handleImageLoad ==
    /\ loaderDisplay' = "none"
    /\ imageOpacity' = 1
    /\ UNCHANGED <<imageSrc, caption>>

\* Variant of handleImageError that blanks the image instead of showing the
\* placeholder.
handleImageErrorBlank ==
    /\ loaderDisplay' = "none"
    /\ imageSrc' = EmptyText
    /\ caption' = ErrorCaption
    /\ UNCHANGED imageOpacity

handleImageError ==
    /\ loaderDisplay' = "none"
    /\ imageSrc' = ErrorImageSrc
    /\ caption' = ErrorCaption
    /\ UNCHANGED imageOpacity

handleKeyboard(key) ==
    CASE key = "ArrowLeft" -> prevSlide
      [] key = "ArrowRight" -> nextSlide
      [] key = "Escape" -> closeLightbox
      [] OTHER -> UNCHANGED progVars

Abs(x) == IF x < 0 THEN 0 - x ELSE x

\* The navigation handleTouchEnd calls for diff = touchStartX - touchEndX:
\* 1 for nextSlide, -1 for prevSlide, 0 for none.
swipeCall(diff) ==
    IF Abs(diff) > touchThreshold
    THEN IF diff > 0 THEN 1 ELSE 0 - 1
    ELSE 0

handleTouchEnd ==
    CASE swipeCall(touchStartX - touchEndX) = 1 -> nextSlide
      [] swipeCall(touchStartX - touchEndX) = 0 - 1 -> prevSlide
      [] OTHER -> UNCHANGED progVars

\* ---------------------------------------------------------------- actions
\* A thumbnail of gallery g is clicked (setupGallery's click listener).
OpenLightbox ==
    \E g \in Galleries : \E index \in 0..(GalleryLen(g) - 1) :
        /\ openLightbox(g, index)
        /\ lastCall' = Call("openLightbox", index, "ok")
        /\ UNCHANGED otherVars

CloseLightbox ==
    /\ closeLightbox
    /\ lastCall' = Call("closeLightbox", 0, "ok")
    /\ UNCHANGED otherVars

PrevSlide ==
    /\ prevSlide
    /\ lastCall' = Call("prevSlide", 0, goToSlideResult)
    /\ UNCHANGED otherVars

NextSlide ==
    /\ nextSlide
    /\ lastCall' = Call("nextSlide", 0, goToSlideResult)
    /\ UNCHANGED otherVars

GoToSlide ==
    \E index \in GoToIndices :
        /\ goToSlide(index)
        /\ lastCall' = Call("goToSlide", index, goToSlideResult)
        /\ UNCHANGED otherVars

HandleKeyboard ==
    \E key \in Keys :
        /\ handleKeyboard(key)
        /\ lastCall' = Call(key, 0, IF key \in {"ArrowLeft", "ArrowRight"}
                                    THEN goToSlideResult ELSE "ok")
        /\ UNCHANGED otherVars

StartSlideshow ==
    /\ startSlideshow
    /\ lastCall' = Call("startSlideshow", 0, "ok")
    /\ UNCHANGED otherVars

StopSlideshow ==
    /\ stopSlideshow
    /\ UNCHANGED <<navVars, galleryVars, viewVars, displayVars, stripVars>>
    /\ lastCall' = Call("stopSlideshow", 0, "ok")
    /\ UNCHANGED otherVars

\* A live setInterval timer fires: its callback calls nextSlide().
SlideshowTick ==
    \E h \in intervals :
        /\ nextSlide
        /\ lastCall' = Call("slideshowTick", h, goToSlideResult)
        /\ UNCHANGED otherVars

\* The setTimeout callback of goToSlide runs after animationDuration.
UnlockTimeout ==
    /\ unlockTimers > 0
    /\ unlockTimers' = unlockTimers - 1
    /\ isAnimating' = FALSE
    /\ UNCHANGED <<currentSlide, galleryVars, viewVars, displayVars, stripVars,
                   timerVars>>
    /\ lastCall' = Call("unlockTimeout", 0, "ok")
    /\ UNCHANGED otherVars

\* The fetch of lightboxImage.src succeeds: the 'load' listener runs.
ImageLoad ==
    /\ loadPending
    /\ handleImageLoad
    /\ loadPending' = FALSE
    /\ UNCHANGED <<navVars, galleryVars, viewVars, stripVars, timerVars>>
    /\ lastCall' = Call("handleImageLoad", 0, "ok")
    /\ UNCHANGED otherVars

\* The fetch fails: the 'error' listener runs and its assignment to src
\* starts the fetch of the placeholder.
ImageError ==
    /\ loadPending
    /\ handleImageError
    /\ loadPending' = TRUE
    /\ UNCHANGED <<navVars, galleryVars, viewVars, stripVars, timerVars>>
    /\ lastCall' = Call("handleImageError", 0, "ok")
    /\ UNCHANGED otherVars

\* A thumbnail of the lightbox strip is clicked (updateThumbnails' listener).
ThumbnailClick ==
    \E index \in 0..(Len(thumbs) - 1) :
        /\ ~hidden
        /\ goToSlide(index)
        /\ lastCall' = Call("thumbnailClick", index, goToSlideResult)
        /\ UNCHANGED otherVars

\* A finger is put on the lightbox at x.
TouchStart ==
    \E x \in TouchXs :
        /\ ~hidden /\ ~touching
        /\ touchStartX' = x
        /\ touching' = TRUE
        /\ fingerX' = x
        /\ UNCHANGED <<touchEndX, progVars, langVars, langEvent, formVars, formEvent>>
        /\ lastCall' = Call("handleTouchStart", 0, "ok")

\* The finger moves to x.
TouchMove ==
    \E x \in TouchXs \ {fingerX} :
        /\ touching
        /\ touchEndX' = x
        /\ fingerX' = x
        /\ UNCHANGED <<touchStartX, touching, progVars, langVars, langEvent, formVars, formEvent>>
        /\ lastCall' = Call("handleTouchMove", 0, "ok")

\* The finger is lifted.
TouchEnd ==
    /\ touching
    /\ touching' = FALSE
    /\ handleTouchEnd
    /\ UNCHANGED <<touchStartX, touchEndX, fingerX, langVars, langEvent, formVars, formEvent>>
    /\ lastCall' = Call("handleTouchEnd", swipeCall(touchStartX - touchEndX),
                        IF swipeCall(touchStartX - touchEndX) = 0
                        THEN "ok" ELSE goToSlideResult)

Next ==
    \/ OpenLightbox
    \/ CloseLightbox
    \/ PrevSlide
    \/ NextSlide
    \/ GoToSlide
    \/ HandleKeyboard
    \/ StartSlideshow
    \/ StopSlideshow
    \/ SlideshowTick
    \/ UnlockTimeout
    \/ ImageLoad
    \/ ImageError
    \/ ThumbnailClick

Spec == Init /\ [][Next]_vars

\* The event loop runs a timeout callback whose delay has elapsed.
FairSpec == Spec /\ WF_vars(UnlockTimeout)

\* The lightbox under touch gestures: opening, closing, the unlock timer and
\* the three touch listeners.
TouchNext ==
    \/ OpenLightbox
    \/ CloseLightbox
    \/ UnlockTimeout
    \/ TouchStart
    \/ TouchMove
    \/ TouchEnd

TouchSpec == Init /\ [][TouchNext]_vars

TypeOK ==
    /\ currentSlide \in 0..MaxGalleryLen
    /\ isAnimating \in BOOLEAN
    /\ currentGallery \in Galleries \cup {NoGallery}
    /\ hidden \in BOOLEAN
    /\ bodyOverflow \in {"", "hidden"}
    /\ loadPending \in BOOLEAN
    /\ slideshowInterval \in 0..MaxIntervals
    /\ intervals \subseteq 1..MaxIntervals
    /\ unlockTimers \in Nat

\* ------------------------------------------------------- LanguageManager
\* loadLanguage(lang): its body has no await, so it runs to its end at once.
loadLanguage(lang) ==
    /\ utilityHidden' = TRUE
    /\ visibleLangs' = {l \in Languages : l = lang}
    /\ currentLang' = lang

\* Variant of updateLanguageUI that adds 'active' without removing it elsewhere.
updateLanguageUIAddOnly(newLang) ==
    /\ activeButtons' = activeButtons \cup {b \in Languages : b = newLang}
    /\ htmlLang' = newLang

updateLanguageUI(newLang) ==
    /\ activeButtons' = {b \in Languages : b = newLang}
    /\ htmlLang' = newLang

\* updateURL(lang): pushState drops the forward entries and adds one
updateURL(lang) ==
    /\ history' = Append(SubSeq(history, 1, histPos), lang)
    /\ histPos' = histPos + 1

\* What switchLanguage(newLang) does in the state with current language cur
switchLanguageResult(newLang) ==
    IF ~isValidLanguage(newLang) \/ newLang = currentLang
    THEN "ignored" ELSE "pending"

\* switchLanguage(newLang) up to `await this.loadLanguage(newLang)`
switchLanguage(newLang) ==
    IF ~isValidLanguage(newLang) \/ newLang = currentLang
    THEN UNCHANGED <<currentLang, loading, visibleLangs, utilityHidden,
                     pendingSwitch>>
    ELSE /\ loading' = TRUE
         /\ loadLanguage(newLang)
         /\ pendingSwitch' = newLang

\* switchLanguage after the await: nothing in it throws, the catch is not
\* entered, and finally clears the loading class.
switchLanguageResume ==
    /\ updateLanguageUI(pendingSwitch)
    /\ savedLang' = pendingSwitch
    /\ updateURL(pendingSwitch)
    /\ loading' = FALSE
    /\ pendingSwitch' = NoLang
    /\ UNCHANGED <<currentLang, visibleLangs, utilityHidden>>

\* The popstate listener of handleURLParameters, the URL parameter being url
onPopState(url) ==
    IF url # NoLang /\ isValidLanguage(url) /\ url # currentLang
    THEN switchLanguage(url)
    ELSE UNCHANGED <<currentLang, loading, visibleLangs, utilityHidden,
                     pendingSwitch>>

\* A language button is clicked, or switchLanguage is called with any code.
\* Tasks run only when no continuation waits in the microtask queue.
SwitchLanguage ==
    \E newLang \in LangCodes :
        /\ pendingSwitch = NoLang
        /\ switchLanguageResult(newLang) = "ignored" \/ histPos < MaxHistory
        /\ switchLanguage(newLang)
        /\ langEvent' = LangEvent("switchLanguage", newLang,
                                  switchLanguageResult(newLang))
        /\ UNCHANGED <<savedLang, history, histPos, htmlLang, activeButtons>>
        /\ UNCHANGED <<progVars, lastCall, touchVars, browserLang, formVars, formEvent>>

\* The microtask that resumes switchLanguage after its await.
SwitchLanguageResume ==
    /\ pendingSwitch # NoLang
    /\ switchLanguageResume
    /\ langEvent' = LangEvent("switchLanguageDone", pendingSwitch, "ok")
    /\ UNCHANGED <<progVars, lastCall, touchVars, browserLang, formVars, formEvent>>

\* The user goes Back: the previous entry becomes current, popstate fires.
HistoryBack ==
    /\ pendingSwitch = NoLang
    /\ histPos > 1
    /\ histPos' = histPos - 1
    /\ onPopState(history[histPos - 1])
    /\ langEvent' = LangEvent("popstate", history[histPos - 1], "ok")
    /\ UNCHANGED <<savedLang, history, htmlLang, activeButtons>>
    /\ UNCHANGED <<progVars, lastCall, touchVars, browserLang, formVars, formEvent>>

\* The user goes Forward: the next entry becomes current, popstate fires.
HistoryForward ==
    /\ pendingSwitch = NoLang
    /\ histPos < Len(history)
    /\ histPos' = histPos + 1
    /\ onPopState(history[histPos + 1])
    /\ langEvent' = LangEvent("popstate", history[histPos + 1], "ok")
    /\ UNCHANGED <<savedLang, history, htmlLang, activeButtons>>
    /\ UNCHANGED <<progVars, lastCall, touchVars, browserLang, formVars, formEvent>>

LangNext ==
    \/ SwitchLanguage
    \/ SwitchLanguageResume
    \/ HistoryBack
    \/ HistoryForward

\* The page is loaded with any URL parameter and browser language; the stored
\* preference is absent or a value an earlier switchLanguage stored.
LangInit ==
    /\ GalleryInit
    /\ EconectarInit
    /\ \E saved \in Languages \cup {NoLang} : \E url \in LangCodes \cup {NoLang} :
         \E browser \in LangCodes : LanguageManagerInit(saved, url, browser)

LangSpec == LangInit /\ [][LangNext]_vars

\* init() between setupLanguageSwitcher and loadLanguage(this.currentLang):
\* the texts and the other elements with a text- class are shown or hidden
\* as the page's markup has them.
BeforeLoadLanguage(saved, url, browser) ==
    LET lang == getInitialLanguage(saved, url, browser) IN
    /\ currentLang = lang
    /\ savedLang = saved
    /\ history = <<url>>
    /\ histPos = 1
    /\ htmlLang = NoLang
    /\ activeButtons = {b \in Languages : b = lang}
    /\ loading = FALSE
    /\ visibleLangs \in SUBSET Languages
    /\ utilityHidden \in BOOLEAN
    /\ pendingSwitch = NoLang
    /\ browserLang = browser
    /\ langEvent = LangEvent("setupLanguageSwitcher", lang, "ok")

\* The rest of init(): loadLanguage(this.currentLang), then updateMetaTags
\* and handleURLParameters, which change nothing of the state kept here.
InitLoadLanguage ==
    /\ langEvent.op = "setupLanguageSwitcher"
    /\ loadLanguage(currentLang)
    /\ langEvent' = LangEvent("constructor", currentLang, "ok")
    /\ UNCHANGED <<savedLang, history, histPos, htmlLang, activeButtons,
                   loading, pendingSwitch>>
    /\ UNCHANGED <<progVars, lastCall, touchVars, browserLang, formVars, formEvent>>

\* The constructor is synchronous: clicks and popstate events are handled
\* once it has returned.
TextNext ==
    \/ InitLoadLanguage
    \/ langEvent.op # "setupLanguageSwitcher" /\ LangNext

TextInit ==
    /\ GalleryInit
    /\ EconectarInit
    /\ \E saved \in Languages \cup {NoLang} : \E url \in LangCodes \cup {NoLang} :
         BeforeLoadLanguage(saved, url, defaultLang)

TextSpec == TextInit /\ [][TextNext]_vars

\* ------------------------------------------------- Econectar: the forms
\* How a request ends: a JSON body whose success is truthy, a JSON body whose
\* success is falsy or missing, fetch() rejecting, response.json() rejecting.
Responses == {"success", "failure", "network", "unparsable"}

\* What the form handling leaves alone of the language state
pageVars == <<currentLang, savedLang, history, histPos, htmlLang,
              activeButtons, visibleLangs, utilityHidden, pendingSwitch,
              browserLang>>

setLoading(value) ==
    /\ isLoading' = value
    /\ loading' = value

\* showNotification(type, message): the element is appended to the body
showNotification(type) ==
    notifications' = Append(notifications, [type |-> type, phase |-> "shown"])

\* Variant of the submit listener without the isLoading test.
submitListenerNoGuard(form) ==
    /\ setLoading(TRUE)
    /\ requests' = Append(requests, form)

\* The submit listener up to `await this.submitForm(...)`
submitListener(form) ==
    IF isLoading
    THEN UNCHANGED <<isLoading, loading, requests>>
    ELSE /\ setLoading(TRUE)
         /\ requests' = Append(requests, form)

\* Variant of the listener's continuation without the else branch: a body
\* whose success is falsy shows nothing.
submitListenerResumeSilentFailure(i, response) ==
    /\ requests' = SubSeq(requests, 1, i - 1) \o SubSeq(requests, i + 1, Len(requests))
    /\ IF response = "success"
       THEN /\ showNotification("success")
            /\ fields' = [fields EXCEPT ![requests[i]] = "empty"]
       ELSE /\ IF response = "failure"
               THEN UNCHANGED notifications
               ELSE showNotification("error")
            /\ UNCHANGED fields
    /\ setLoading(FALSE)

\* The submit listener after the await, for the request at position i:
\* success shows the success notification and resets the form; a falsy
\* success throws, and every rejection or throw lands in catch, which shows
\* the error notification; finally runs setLoading(false).
submitListenerResume(i, response) ==
    /\ requests' = SubSeq(requests, 1, i - 1) \o SubSeq(requests, i + 1, Len(requests))
    /\ IF response = "success"
       THEN /\ showNotification("success")
            /\ fields' = [fields EXCEPT ![requests[i]] = "empty"]
       ELSE /\ showNotification("error")
            /\ UNCHANGED fields
    /\ setLoading(FALSE)

\* The user types into a form.
FillForm ==
    \E form \in Forms :
        /\ fields[form] = "empty"
        /\ fields' = [fields EXCEPT ![form] = "filled"]
        /\ formEvent' = FormEvent("input", form, "ok")
        /\ UNCHANGED <<isLoading, loading, requests, notifications>>
        /\ UNCHANGED <<progVars, lastCall, touchVars, pageVars, langEvent>>

\* A submit event on a form.
Submit ==
    \E form \in Forms :
        /\ isLoading \/ Len(requests) < MaxRequests
        /\ submitListener(form)
        /\ formEvent' = FormEvent("submit", form,
                                  IF isLoading THEN "ignored" ELSE "sent")
        /\ UNCHANGED <<fields, notifications>>
        /\ UNCHANGED <<progVars, lastCall, touchVars, pageVars, langEvent>>

\* A request settles and the listener that awaits it resumes.
Response ==
    \E i \in DOMAIN requests : \E response \in Responses :
        /\ Len(notifications) < MaxNotifications
        /\ submitListenerResume(i, response)
        /\ formEvent' = FormEvent("response", requests[i], response)
        /\ UNCHANGED <<progVars, lastCall, touchVars, pageVars, langEvent>>

\* 3000 ms after showNotification: the oldest notification still shown gets
\* the class notification-hidden.
NotificationHide ==
    \E i \in DOMAIN notifications :
        /\ notifications[i].phase = "shown"
        /\ \A j \in 1..(i - 1) : notifications[j].phase = "hidden"
        /\ notifications' = [notifications EXCEPT ![i].phase = "hidden"]
        /\ formEvent' = FormEvent("notificationHidden", 0, "ok")
        /\ UNCHANGED <<isLoading, loading, requests, fields>>
        /\ UNCHANGED <<progVars, lastCall, touchVars, pageVars, langEvent>>

\* 300 ms later: the notification is removed from the body.
NotificationRemove ==
    /\ notifications # << >>
    /\ notifications[1].phase = "hidden"
    /\ notifications' = Tail(notifications)
    /\ formEvent' = FormEvent("notificationRemoved", 0, "ok")
    /\ UNCHANGED <<isLoading, loading, requests, fields>>
    /\ UNCHANGED <<progVars, lastCall, touchVars, pageVars, langEvent>>

FormNext ==
    \/ FillForm
    \/ Submit
    \/ Response
    \/ NotificationHide
    \/ NotificationRemove

FormSpec == Init /\ [][FormNext]_vars

\* ------------------------------------------------------------ properties
IsOpen == ~hidden
GalleryOpened == images # Undefined

\* A navigation request: prevSlide, nextSlide, goToSlide, an arrow key or a
\* slideshow tick.
NavigationCall ==
    \/ PrevSlide
    \/ NextSlide
    \/ GoToSlide
    \/ SlideshowTick
    \/ ThumbnailClick
    \/ \E key \in {"ArrowLeft", "ArrowRight"} :
           handleKeyboard(key) /\ lastCall' = Call(key, 0, goToSlideResult)

\* C1: while the lightbox is open, currentSlide is a valid index into images.
C1_IndexInRange ==
    IsOpen => (currentSlide >= 0 /\ currentSlide < Len(images))

\* C1 witness: the viewer is open after goToSlide took an index below -1.
C1_Witness ==
    /\ IsOpen
    /\ lastCall.op = "goToSlide" /\ lastCall.result = "ok" /\ lastCall.arg < -1
    /\ currentSlide = Len(images) - 1

\* C2: under the transition lock a navigation request changes neither
\* currentSlide nor the set of pending unlock timers, and at most one unlock
\* timer is ever pending.
C2_LockedNavigationIsNoOp ==
    /\ [](unlockTimers <= 1)
    /\ [][(isAnimating /\ NavigationCall) =>
            (currentSlide' = currentSlide /\ unlockTimers' = unlockTimers
             /\ isAnimating')]_vars

\* C2 witness: nextSlide was ignored while a transition was in progress.
C2_Witness ==
    /\ isAnimating /\ unlockTimers = 1
    /\ lastCall = Call("nextSlide", 0, "ignored")

\* C3: whenever the transition lock is set it is eventually cleared.
C3_LockEventuallyClears == isAnimating ~> ~isAnimating

\* C4: with the lock clear, nextSlide moves to (i+1) mod length and prevSlide
\* to (i-1) mod length.
C4_NavigationWraps ==
    [][(~isAnimating /\ GalleryOpened) =>
         /\ NextSlide => currentSlide' = (currentSlide + 1) % Len(images)
         /\ PrevSlide => currentSlide' = (currentSlide - 1) % Len(images)]_vars

\* C4 witness: in a 3-image gallery nextSlide wrapped from the last slide to 0.
C4_Witness ==
    /\ IsOpen /\ Len(images) = 3
    /\ lastCall = Call("nextSlide", 0, "ok")
    /\ currentSlide = 0

\* C5: right after stopSlideshow() or closeLightbox() no slideshow timer is
\* alive, so no later tick can navigate.
C5_NoTimerAfterStop ==
    lastCall.op \in {"stopSlideshow", "closeLightbox", "Escape"} => intervals = {}

\* C6: at most one slideshow timer is alive, and the controller holds the
\* handle of every live timer.
C6_SingleSlideshowTimer ==
    /\ Cardinality(intervals) <= 1
    /\ intervals \subseteq {slideshowInterval}

\* C7: when the load of the full image of the current slide fails, the image
\* source becomes the placeholder and the caption the error text, while the
\* viewer stays as open as it was, on the same slide of the same gallery, with
\* the transition lock and its timer untouched.
C7_LoadFailureKeepsViewer ==
    [][(ImageError /\ GalleryOpened /\ currentSlide < Len(images)
        /\ imageSrc = FullSrc(images[currentSlide + 1])) =>
         /\ imageSrc' = ErrorImageSrc
         /\ caption' = ErrorCaption
         /\ hidden' = hidden
         /\ currentSlide' = currentSlide
         /\ images' = images
         /\ isAnimating' = isAnimating
         /\ unlockTimers' = unlockTimers]_vars

\* C7 witness: opened on slide 1, the load failed, the viewer is still open.
C7_Witness ==
    /\ IsOpen /\ currentSlide = 1
    /\ lastCall.op = "handleImageError"
    /\ imageSrc = ErrorImageSrc /\ caption = ErrorCaption

\* C8: after an unlocked nextSlide the index prevSlide computes is the one
\* nextSlide started from, and likewise for prevSlide then nextSlide.
C8_NextPrevRoundTrip ==
    [][(~isAnimating /\ GalleryOpened) =>
         /\ NextSlide =>
              CircularIndex(currentSlide' - 1, Len(images')) = currentSlide
         /\ PrevSlide =>
              CircularIndex(currentSlide' + 1, Len(images')) = currentSlide]_vars

\* C8 witness: prevSlide wrapped from slide 0 to the last slide of a gallery
\* with several images.
C8_Witness ==
    /\ IsOpen /\ Len(images) >= 2
    /\ lastCall = Call("prevSlide", 0, "ok")
    /\ currentSlide = Len(images) - 1

\* C9: openLightbox(gallery, startIndex) opens the viewer on that gallery and
\* slide and issues the load of that slide's image, whatever the state before.
C9_OpenSetsState ==
    [][\A g \in Galleries : \A index \in 0..(GalleryLen(g) - 1) :
         (openLightbox(g, index) /\ lastCall' = Call("openLightbox", index, "ok")) =>
             /\ ~hidden'
             /\ currentGallery' = g
             /\ images' = GalleryThumbnails(g)
             /\ currentSlide' = index
             /\ imageSrc' = FullSrc(GalleryThumbnails(g)[index + 1])
             /\ loadPending']_vars

\* C9 witness: a gallery was opened while the transition lock was set.
C9_Witness ==
    /\ lastCall.op = "openLightbox"
    /\ isAnimating
    /\ IsOpen /\ currentSlide = lastCall.arg /\ loadPending

\* C10: closeLightbox leaves the viewer closed with page scrolling restored,
\* and a closeLightbox right after a closeLightbox changes nothing.
C10_CloseIdempotent ==
    [][CloseLightbox =>
         /\ hidden' /\ bodyOverflow' = ""
         /\ lastCall'.result = "ok"
         /\ (lastCall.op = "closeLightbox" => UNCHANGED progVars)]_vars

\* C10 witness: the viewer was closed after use, slideshow handle released.
C10_Witness ==
    /\ lastCall.op = "closeLightbox"
    /\ GalleryOpened /\ hidden /\ bodyOverflow = ""
    /\ slideshowInterval = NoHandle

\* C11: an unlocked goToSlide(index) on an opened gallery raises no error and
\* leaves currentSlide at index clamped to [0, length-1] or at index mod length.
C11_GoToNormalizes ==
    (lastCall.op = "goToSlide" /\ lastCall.result # "ignored" /\ GalleryOpened) =>
        LET len == Len(images)
            clamped == IF lastCall.arg < 0 THEN 0
                       ELSE IF lastCall.arg >= len THEN len - 1
                       ELSE lastCall.arg
        IN  /\ lastCall.result = "ok"
            /\ currentSlide \in {clamped, lastCall.arg % len}

\* C12: a touch gesture calls nextSlide exactly when the finger ended more
\* than touchThreshold to the left of where it started, prevSlide exactly when
\* it ended more than touchThreshold to the right, and nothing otherwise.
C12_SwipeThreshold ==
    lastCall.op = "handleTouchEnd" =>
        lastCall.arg = (IF touchStartX - fingerX > touchThreshold THEN 1
                        ELSE IF fingerX - touchStartX > touchThreshold THEN 0 - 1
                        ELSE 0)

\* C13: once a gallery was opened the strip has one entry per image, the
\* active entries are exactly the one at currentSlide, the counter reads
\* currentSlide+1 / length, and an unlocked click on thumbnail i goes to slide i.
C13_StripMatchesSlide ==
    /\ [](GalleryOpened =>
            /\ Len(thumbs) = Len(images)
            /\ \A k \in 1..Len(thumbs) : thumbs[k] <=> (k - 1 = currentSlide)
            /\ Cardinality({k \in 1..Len(thumbs) : thumbs[k]}) = 1
            /\ counter = <<currentSlide + 1, Len(images)>>)
    /\ [][(ThumbnailClick /\ ~isAnimating) =>
            (currentSlide' = lastCall'.arg /\ thumbs'[lastCall'.arg + 1])]_vars

\* C13 witness: a click on the last thumbnail of a 3-image strip moved the
\* active mark there.
C13_Witness ==
    /\ lastCall = Call("thumbnailClick", 2, "ok")
    /\ currentSlide = 2 /\ thumbs = <<FALSE, FALSE, TRUE>> /\ counter = <<3, 3>>

\* C14: the page scroll lock is set exactly while the lightbox is open.
C14_ScrollLockIffOpen ==
    (bodyOverflow = "hidden") <=> IsOpen

\* C14 witness: Escape closed an opened lightbox and scrolling is restored.
C14_Witness ==
    /\ lastCall.op = "Escape"
    /\ GalleryOpened /\ ~IsOpen /\ bodyOverflow = ""

\* C15: every open and every navigation that goes through shows the loader
\* with the load it issues, the load and error listeners hide it, and the
\* loader is never shown without a load in flight.
C15_LoaderFollowsLoad ==
    /\ [](loaderDisplay = "block" => loadPending)
    /\ [][(OpenLightbox \/ (NavigationCall /\ goToSlideResult = "ok")) =>
            (loaderDisplay' = "block" /\ loadPending')]_vars
    /\ [][(ImageLoad \/ ImageError) => loaderDisplay' = "none"]_vars

\* C15 witness: the image of an open lightbox has loaded and the loader is gone.
C15_Witness ==
    /\ lastCall.op = "handleImageLoad"
    /\ IsOpen /\ ~loadPending /\ loaderDisplay = "none" /\ imageOpacity = 1

\* C16: openLightbox(gallery, i) right after openLightbox(gallery, i) leaves the
\* viewer open on the same gallery and slide, with the same lock value and the
\* scroll lock set.
C16_OpenIdempotent ==
    [][\A g \in Galleries : \A index \in 0..(GalleryLen(g) - 1) :
         (/\ lastCall = Call("openLightbox", index, "ok")
          /\ currentGallery = g
          /\ openLightbox(g, index)) =>
             /\ UNCHANGED <<currentSlide, isAnimating, galleryVars, viewVars>>
             /\ ~hidden' /\ bodyOverflow' = "hidden"]_vars

\* C16 witness: a gallery was opened with the lock clear.
C16_Witness ==
    /\ lastCall.op = "openLightbox"
    /\ ~isAnimating
    /\ IsOpen /\ bodyOverflow = "hidden"
    /\ currentSlide = lastCall.arg /\ counter[1] = lastCall.arg + 1

\* C17: while the lightbox is closed a key press raises no error and changes
\* neither currentSlide nor isAnimating.
C17_KeysIgnoredWhenClosed ==
    [][(hidden /\ HandleKeyboard) =>
         /\ lastCall'.result # "threw"
         /\ currentSlide' = currentSlide
         /\ isAnimating' = isAnimating]_vars

\* C18: when the load of the placeholder itself fails, the error handler does
\* not start another load, so it runs at most twice per navigation.
C18_ErrorHandlingStops ==
    [][(ImageError /\ imageSrc = ErrorImageSrc) => ~loadPending']_vars

C20_CurrentLangAvailable == currentLang \in Languages

\* C21: the language the constructor picks is the stored preference if there
\* is one, else the URL parameter if there is one, else the browser language
\* if it is available, else 'pt'.
C21_InitialLanguagePriority ==
    langEvent.op = "constructor" =>
        /\ savedLang # NoLang => currentLang = savedLang
        /\ (savedLang = NoLang /\ history[1] # NoLang) => currentLang = history[1]
        /\ (savedLang = NoLang /\ history[1] = NoLang /\ browserLang \in Languages)
              => currentLang = browserLang
        /\ (savedLang = NoLang /\ history[1] = NoLang /\ browserLang \notin Languages)
              => currentLang = "pt"

\* C21 witness: the page was loaded with a stored preference and another
\* language in the URL, and the stored preference won.
C21_Witness ==
    /\ langEvent.op = "constructor"
    /\ savedLang = "en" /\ history = <<"es">> /\ browserLang = "fr"
    /\ currentLang = "en"

\* C25: when the popstate listener has switched to the language of the entry
\* the user went Back or Forward to, currentLang is that language and the
\* history (its entries and the current position in it) is what it was when
\* the listener started.
C25_PopstateKeepsHistory ==
    [][(langEvent.op = "popstate" /\ SwitchLanguageResume) =>
          /\ currentLang' = langEvent.lang
          /\ history' = history
          /\ histPos' = histPos]_vars

\* C22: a call of loadLanguage(lang) leaves the texts of lang visible, the
\* texts of the other languages hidden, and the elements that are not
\* language texts as visible or hidden as they were.
C22_LoadLanguageFrame ==
    [][(InitLoadLanguage \/ (pendingSwitch = NoLang /\ pendingSwitch' # NoLang)) =>
          /\ visibleLangs' = {l \in Languages : l = currentLang'}
          /\ utilityHidden' = utilityHidden]_vars

\* C23: no two form requests are in flight at once, and a submit event that
\* arrives while isLoading is true starts no request, shows no notification
\* and leaves isLoading as it is.
C23_OneRequestInFlight ==
    /\ [](Len(requests) <= 1)
    /\ [][(isLoading /\ Submit) =>
             UNCHANGED <<requests, notifications, isLoading>>]_vars

\* C23 witness: one form's request is in flight and the submit of the other
\* form has just been ignored.
C23_Witness ==
    /\ formEvent.op = "submit" /\ formEvent.result = "ignored"
    /\ isLoading
    /\ Len(requests) = 1
    /\ requests[1] # formEvent.form

\* C24: when a request settles, isLoading becomes false and exactly one
\* notification is added: the success notification with the form reset when
\* the response has success true, the error notification with the fields
\* untouched in every other case.
C24_SubmissionOutcome ==
    [][Response =>
          /\ ~isLoading'
          /\ Len(notifications') = Len(notifications) + 1
          /\ SubSeq(notifications', 1, Len(notifications)) = notifications
          /\ IF formEvent'.result = "success"
             THEN /\ notifications'[Len(notifications')].type = "success"
                  /\ fields' = [fields EXCEPT ![formEvent'.form] = "empty"]
             ELSE /\ notifications'[Len(notifications')].type = "error"
                  /\ fields' = fields]_vars

\* C24 witness: a filled form's request came back with success false; the
\* error notification is shown, the fields are still filled and the loading
\* state is cleared.
C24_Witness ==
    /\ formEvent.op = "response" /\ formEvent.result = "failure"
    /\ ~isLoading
    /\ notifications # << >>
    /\ notifications[Len(notifications)] = [type |-> "error", phase |-> "shown"]
    /\ fields[formEvent.form] = "filled"
====
